---- MODULE Spec2Model ----
(***************************************************************************)
(* Model of douban_to_tmdb.py (tmdb_search, build_kometa_yaml, main) and   *)
(* merge_yaml.py (merge_data, main).                                       *)
(*                                                                         *)
(* Python strings are sequences of one-character strings, so that strip,   *)
(* lstrip, lower, slicing, str() and the substring test are computed.      *)
(* Python values are tagged records [k, v]: k is the Python type ("str",   *)
(* "int", "list", "none") or "missing" for a dict key that is not there.   *)
(***************************************************************************)
EXTENDS Integers, Sequences, FiniteSets, TLC

----------------------------------------------------------------------------
(* Bounds of the model *)

\* longest candidate list one search call returns (single-query runs)
MaxResults == 2

\* longest catalog of a batch run
MaxMovies == 2

\* longest secondary document handed to merge_data on its own
MaxEntries == 2

----------------------------------------------------------------------------
(* Python values *)

PyStr(s) == [k |-> "str", v |-> s]

PyNone == [k |-> "none", v |-> <<>>]

PyMissing == [k |-> "missing", v |-> <<>>]

PyInt(n) == [k |-> "int", v |-> n]

PyList(s) == [k |-> "list", v |-> s]

\* truth value of a Python object in `if x` / `not x` / `a and b`
Truthy(x) ==
    CASE x.k = "none" -> FALSE
      [] x.k = "missing" -> FALSE
      [] x.k = "int" -> x.v # 0
      [] x.k = "str" -> x.v # <<>>
      [] x.k = "list" -> x.v # {}
      [] OTHER -> TRUE

\* dict.get(key, default): the default only when the key is not there
DictGet(field, default) == IF field.k = "missing" THEN default ELSE field

----------------------------------------------------------------------------
(* Python string operations *)

IsSpace(c) == c = " "

LowerChar(c) ==
    CASE c = "A" -> "a"
      [] c = "B" -> "b"
      [] c = "Z" -> "z"
      [] OTHER -> c

Lower(s) == [i \in 1..Len(s) |-> LowerChar(s[i])]

RECURSIVE LStripWs(_)
LStripWs(s) == IF s # <<>> /\ IsSpace(Head(s)) THEN LStripWs(Tail(s)) ELSE s

RECURSIVE RStripWs(_)
RStripWs(s) ==
    IF s # <<>> /\ IsSpace(s[Len(s)]) THEN RStripWs(SubSeq(s, 1, Len(s) - 1)) ELSE s

\* str.strip()
Strip(s) == RStripWs(LStripWs(s))

\* str.lstrip('/')
RECURSIVE LStripSlash(_)
LStripSlash(s) == IF s # <<>> /\ Head(s) = "/" THEN LStripSlash(Tail(s)) ELSE s

\* s[:4]
Slice4(s) == SubSeq(s, 1, IF Len(s) < 4 THEN Len(s) ELSE 4)

\* sub in s
Contains(sub, s) ==
    \E i \in 0..(Len(s) - Len(sub)) : SubSeq(s, i + 1, i + Len(sub)) = sub

Digit(d) ==
    CASE d = 0 -> "0" [] d = 1 -> "1" [] d = 2 -> "2" [] d = 3 -> "3" [] d = 4 -> "4"
      [] d = 5 -> "5" [] d = 6 -> "6" [] d = 7 -> "7" [] d = 8 -> "8" [] OTHER -> "9"

\* str(n) of a non-negative int
RECURSIVE StrOfInt(_)
StrOfInt(n) == IF n < 10 THEN <<Digit(n)>> ELSE StrOfInt(n \div 10) \o <<Digit(n % 10)>>

\* str(year): year is an int wherever the code calls it
StrOfYear(year) == StrOfInt(year.v)

----------------------------------------------------------------------------
(* The catalog file douban_top250.yml: records as the crawler saves them *)

CatalogRecord(cn, en, year) ==
    [title_cn |-> PyStr(cn), title_en |-> en, year |-> year, rank |-> 0,
     rating |-> PyStr(<<"9">>), director |-> PyStr(<<"d">>), actors |-> PyStr(<<"c">>),
     tmdb_id |-> PyMissing]

\* a movies list with rank i on its i-th record
Ranked(c) == [i \in 1..Len(c) |-> [c[i] EXCEPT !.rank = i]]

SeqsUpTo(S, n) == UNION {[1..m -> S] : m \in 0..n}

TitlesCn == {<<"a">>, <<" ", "A">>}

TitlesEn == {PyNone, PyStr(<<>>), PyStr(<<"/">>), PyStr(<<"/", " ", "b">>), PyStr(<<"B">>)}

Years == {PyNone, PyInt(1993)}

\* queries of the single-query runs
Queries == {CatalogRecord(cn, en, y) : cn \in TitlesCn, en \in TitlesEn, y \in Years}

\* queries of the batch runs: two records may share a native title
BatchQueries ==
    {CatalogRecord(<<"a">>, PyStr(<<"/", " ", "b">>), PyInt(1993)),
     CatalogRecord(<<"a">>, PyNone, PyNone),
     CatalogRecord(<<" ", "A">>, PyStr(<<>>), PyNone)}

\* what yaml.safe_load gives for the catalog file, or that it cannot be read
Unreadable == [ok |-> FALSE, movies |-> <<>>]

CatalogFile(c) == [ok |-> TRUE, movies |-> Ranked(c)]

----------------------------------------------------------------------------
(* The Search Provider: candidate records of the TMDb search response *)

Movie(id, title, original_title, release_date, genre_ids) ==
    [id |-> id, title |-> title, original_title |-> original_title,
     release_date |-> release_date, genre_ids |-> genre_ids]

D1993 == <<"1", "9", "9", "3", "-", "0", "1">>

D1994 == <<"1", "9", "9", "4", "-", "0", "7">>

\* exact title (after strip and lower) and year
M1 == Movie(PyInt(1), PyStr(<<"A", " ">>), PyStr(<<"b">>), PyStr(D1993), PyList({18}))

\* unrelated title, same year
M2 == Movie(PyInt(2), PyStr(<<"z">>), PyStr(<<"z">>), PyStr(D1993), PyList({}))

\* exact original title, other year
M3 == Movie(PyInt(3), PyStr(<<"z">>), PyStr(<<" ", "B">>), PyStr(D1994), PyList({}))

\* title containing the native title, no release date
M4 == Movie(PyInt(4), PyStr(<<"Z", "a">>), PyStr(<<"z">>), PyStr(<<>>), PyList({18}))

\* unrelated
M5 == Movie(PyInt(5), PyStr(<<"z">>), PyStr(<<"z">>), PyStr(D1994), PyList({}))

\* documentary with the exact title and year
M6 == Movie(PyInt(6), PyStr(<<"a">>), PyStr(<<"b">>), PyStr(D1993), PyList({99}))

\* unrelated TV movie
M7 == Movie(PyInt(7), PyStr(<<"z">>), PyStr(<<"z">>), PyStr(D1994), PyList({10770, 18}))

\* keys title, original_title, release_date and genre_ids not there
M8 == Movie(PyInt(8), PyMissing, PyMissing, PyMissing, PyMissing)

\* "title": null
M9 == Movie(PyInt(9), PyNone, PyStr(<<"b">>), PyStr(D1993), PyList({}))

\* no "id" key
M10 == Movie(PyMissing, PyStr(<<"a">>), PyStr(<<"b">>), PyStr(D1993), PyList({}))

\* "genre_ids": null
M11 == Movie(PyInt(11), PyStr(<<"a">>), PyStr(<<"b">>), PyStr(D1993), PyNone)

\* "release_date": null
M12 == Movie(PyInt(12), PyStr(<<"a">>), PyStr(<<"b">>), PyNone, PyList({}))

\* talk show whose titles contain the query's, other year
M13 == Movie(PyInt(13), PyStr(<<"Z", "a">>), PyStr(<<"z", "b">>), PyStr(D1994), PyList({10767}))

WellFormedMovies == {M1, M2, M3, M4, M5, M6, M7, M13}

MalformedMovies == {M8, M9, M10, M11, M12}

\* the "results" lists a search call can return in a single-query run
Responses == SeqsUpTo(WellFormedMovies \cup MalformedMovies, MaxResults)

\* the "results" lists a search call can return in a batch run
BatchResponses == {<<>>, <<M1>>, <<M5>>, <<M2, M1>>}

----------------------------------------------------------------------------
(* tmdb_search: the pieces of its body *)

\* how a piece of code ends: it returns v, raises v.k, or falls through
Return(v) == [t |-> "return", v |-> v]

Raise(e) == [t |-> "raise", v |-> [k |-> e, v |-> <<>>]]

FallThrough == [t |-> "next", v |-> PyNone]

\* the year argument of the first two searches: search(t, year) if year else search(t)
YearArg(year) == IF Truthy(year) THEN year ELSE PyNone

\* title_en.strip().lstrip('/').strip()
CleanTitleEn(title_en) == Strip(LStripSlash(Strip(title_en.v)))

\* the cleaned foreign title is searched at all
HasCleanTitleEn(title_en) ==
    IF Truthy(title_en) THEN CleanTitleEn(title_en) # <<>> ELSE FALSE

\* `if not results and title_en:` then `if clean_title_en:` (steps 2 and 4)
ForeignGuard(res, title_en) == res = <<>> /\ HasCleanTitleEn(title_en)

RetryGuardAlways(res) == TRUE

\* `if not results:` before the searches without the year (step 3)
RetryGuard(res) == res = <<>>

\* 10767 in genres or 10770 in genres or 99 in genres
Excluded(genres) == 10767 \in genres.v \/ 10770 \in genres.v \/ 99 \in genres.v

\* the filter loop: the kept movies, or the TypeError of `in None`
RECURSIVE FilterFrom(_, _, _)
FilterFrom(res, i, kept) ==
    IF i > Len(res) THEN [t |-> "ok", v |-> kept]
    ELSE LET genres == DictGet(res[i].genre_ids, PyList({}))
         IN  IF genres.k # "list" THEN [t |-> "raise", v |-> <<>>]
             ELSE IF Excluded(genres) THEN FilterFrom(res, i + 1, kept)
             ELSE FilterFrom(res, i + 1, Append(kept, res[i]))

OrUnfilteredNever(kept, res) == kept

\* `if not movie_results: movie_results = results`
OrUnfiltered(kept, res) == IF kept = <<>> THEN res ELSE kept

\* s.strip().lower()
Norm(s) == Lower(Strip(s))

\* movie["id"]
ReturnId(movie) == IF movie.id.k = "missing" THEN Raise("KeyError") ELSE Return(movie.id)

\* tier 1, one movie: title and year both match
Tier1Body(movie, q) ==
    LET title == DictGet(movie.title, PyStr(<<>>))
        original == DictGet(movie.original_title, PyStr(<<>>))
        date == DictGet(movie.release_date, PyStr(<<>>))
    IN  IF title.k # "str" \/ original.k # "str" THEN Raise("AttributeError")
        ELSE IF date.k # "str" THEN Raise("TypeError")
        ELSE IF Slice4(date.v) # StrOfYear(q.year) THEN FallThrough
        ELSE IF Norm(title.v) = Norm(q.title_cn.v) THEN ReturnId(movie)
        ELSE IF q.title_en.k # "str" THEN Raise("AttributeError")
        ELSE IF Norm(original.v) = Norm(q.title_en.v) THEN ReturnId(movie)
        ELSE FallThrough

\* tier 2, one movie: the year matches
Tier2Body(movie, q) ==
    LET date == DictGet(movie.release_date, PyStr(<<>>))
    IN  IF date.k # "str" THEN Raise("TypeError")
        ELSE IF Slice4(date.v) = StrOfYear(q.year) THEN ReturnId(movie)
        ELSE FallThrough

\* tier 3, one movie: the title matches
Tier3Body(movie, q) ==
    LET title == DictGet(movie.title, PyStr(<<>>))
        original == DictGet(movie.original_title, PyStr(<<>>))
    IN  IF title.k # "str" \/ original.k # "str" THEN Raise("AttributeError")
        ELSE IF Norm(title.v) = Norm(q.title_cn.v) THEN ReturnId(movie)
        ELSE IF q.title_en.k # "str" THEN Raise("AttributeError")
        ELSE IF Norm(original.v) = Norm(q.title_en.v) THEN ReturnId(movie)
        ELSE FallThrough

\* tier 4, one movie: the title contains the query's
Tier4Body(movie, q) ==
    LET title == DictGet(movie.title, PyStr(<<>>))
        original == DictGet(movie.original_title, PyStr(<<>>))
    IN  IF title.k # "str" \/ original.k # "str" THEN Raise("AttributeError")
        ELSE IF Contains(Norm(q.title_cn.v), Norm(title.v)) THEN ReturnId(movie)
        ELSE IF q.title_en.k # "str" THEN Raise("AttributeError")
        ELSE IF Contains(Norm(q.title_en.v), Norm(original.v)) THEN ReturnId(movie)
        ELSE FallThrough

TierBody(n, movie, q) ==
    CASE n = 1 -> Tier1Body(movie, q)
      [] n = 2 -> Tier2Body(movie, q)
      [] n = 3 -> Tier3Body(movie, q)
      [] OTHER -> Tier4Body(movie, q)

\* `for movie in movie_results:` of tier n, from the i-th movie on
RECURSIVE TierFrom(_, _, _, _)
TierFrom(n, ms, i, q) ==
    IF i > Len(ms) THEN FallThrough
    ELSE LET r == TierBody(n, ms[i], q)
         IN  IF r.t = "next" THEN TierFrom(n, ms, i + 1, q) ELSE r

\* tier 5: movie_results[0]["id"] if movie_results else None
Tier5(ms) == IF ms # <<>> THEN ReturnId(ms[1]) ELSE Return(PyNone)

----------------------------------------------------------------------------
(* build_kometa_yaml and merge_data *)

\* the file douban_top250_kometa.yml as merge_yaml loads it: not loadable (None),
\* a document without "collections", or the collection's tmdb_movie list
KometaAbsent == [k |-> "none", v |-> <<>>]

KometaNoCollections == [k |-> "nocoll", v |-> <<>>]

KometaDoc(entries) == [k |-> "doc", v |-> entries]

KometaEntry(id, title, index) == [id |-> id, title |-> title, index |-> index]

KometaEntryIdIndexSwapped(movie) ==
    KometaEntry(PyInt(movie.rank), movie.title_cn, movie.tmdb_id)

\* {"id": movie['tmdb_id'], "title": movie['title_cn'], "index": movie['rank']}
KometaEntryOf(movie) == KometaEntry(movie.tmdb_id, movie.title_cn, movie.rank)

\* the loop of build_kometa_yaml: one entry per movie with a truthy tmdb_id
RECURSIVE KometaEntries(_, _)
KometaEntries(matched, i) ==
    IF i > Len(matched) THEN <<>>
    ELSE LET movie == matched[i]
             rest == KometaEntries(matched, i + 1)
         IN  IF Truthy(DictGet(movie.tmdb_id, PyNone))
             THEN <<KometaEntryOf(movie)>> \o rest
             ELSE rest

\* the document build_kometa_yaml dumps
BuildKometa(matched) == KometaDoc(KometaEntries(matched, 1))

\* tmdb_mapping[key] = value on a dict held as a function
DictPut(map, key, value) ==
    [x \in (DOMAIN map) \cup {key} |-> IF x = key THEN value ELSE map[x]]

\* the loop filling tmdb_mapping, from the i-th entry on
RECURSIVE TmdbMapping(_, _, _)
TmdbMapping(entries, i, map) ==
    IF i > Len(entries) THEN map
    ELSE TmdbMapping(entries, i + 1,
             DictPut(map, entries[i].title,
                     [tmdb_id |-> entries[i].id, index |-> entries[i].index]))

\* tmdb_mapping.get(title_cn, {}).get("tmdb_id")
MappingGet(map, title_cn) ==
    IF title_cn \in DOMAIN map THEN map[title_cn].tmdb_id ELSE PyNone

MergedMovie(movie, tmdb_id) ==
    [rank |-> movie.rank, title_cn |-> movie.title_cn, title_en |-> movie.title_en,
     year |-> movie.year, rating |-> movie.rating, director |-> movie.director,
     actors |-> movie.actors, tmdb_id |-> tmdb_id]

MergeDataInner(douban_movies, tmdb_data) ==
    LET map == IF tmdb_data.k = "doc" THEN TmdbMapping(tmdb_data.v, 1, <<>>) ELSE <<>>
    IN  SelectSeq([i \in 1..Len(douban_movies) |->
                     MergedMovie(douban_movies[i], MappingGet(map, douban_movies[i].title_cn))],
                  LAMBDA m : m.tmdb_id.k # "none")

\* merge_data: the merged_movies list
MergeData(douban_movies, tmdb_data) ==
    LET map == IF tmdb_data.k = "doc" THEN TmdbMapping(tmdb_data.v, 1, <<>>) ELSE <<>>
    IN  [i \in 1..Len(douban_movies) |->
            MergedMovie(douban_movies[i], MappingGet(map, douban_movies[i].title_cn))]

----------------------------------------------------------------------------
(* State *)

VARIABLES
    douban_file,     \* douban_top250.yml
    kometa_file,     \* douban_top250_kometa.yml
    not_found_file,  \* not_found.txt: the misses written, <<>> while not written
    complete_file,   \* douban_top250_complete.yml: [k, v], k = "none" while not written
    pc,              \* where douban_to_tmdb.py is
    exc,             \* the exception that ended douban_to_tmdb.py, "" if none
    movies,          \* main: the loaded catalog
    idx,             \* main: the for loop's position, from 1
    matched_movies,  \* main
    misses,          \* main
    results,         \* tmdb_search
    movie_results,   \* tmdb_search
    calls,           \* the searches issued by the current tmdb_search, with their outcome
    ret,             \* what tmdb_search returned
    mpc              \* where merge_yaml.py is

vars ==
    <<douban_file, kometa_file, not_found_file, complete_file, pc, exc, movies, idx,
      matched_movies, misses, results, movie_results, calls, ret, mpc>>

files == <<douban_file, kometa_file, not_found_file, complete_file>>

mainvars == <<movies, idx, matched_movies, misses>>

\* the movie the loop of main is at
Cur == movies[idx]

InitWith(catalogs, kometas, start) ==
    /\ douban_file \in catalogs
    /\ kometa_file \in kometas
    /\ not_found_file = <<>>
    /\ complete_file = [k |-> "none", v |-> <<>>]
    /\ pc = start
    /\ exc = ""
    /\ movies = <<>>
    /\ idx = 1
    /\ matched_movies = <<>>
    /\ misses = <<>>
    /\ results = <<>>
    /\ movie_results = <<>>
    /\ calls = <<>>
    /\ ret = PyNone
    /\ mpc = "ready"

----------------------------------------------------------------------------
(* douban_to_tmdb.py *)

\* an exception nobody catches ends the process with a traceback
Uncaught(e) ==
    /\ pc' = "crashed"
    /\ exc' = e

\* search(title, year): requests.get(...).json().get("results", []) gives one of
\* the lists of R, or requests.get or .json() raises
Search(R, title, year, next) ==
    \/ \E r \in R :
          /\ results' = r
          /\ calls' = Append(calls, [query |-> title, year |-> year, n |-> Len(r)])
          /\ pc' = next
          /\ exc' = exc
    \/ /\ calls' = Append(calls, [query |-> title, year |-> year, n |-> 0 - 1])
       /\ Uncaught("RequestException")
       /\ UNCHANGED results

\* main up to the loop: load_douban_data, `if not movies: sys.exit(1)`
MainLoad ==
    /\ pc = "start"
    /\ IF douban_file.ok /\ douban_file.movies # <<>>
       THEN /\ movies' = douban_file.movies
            /\ pc' = "loop"
       ELSE /\ pc' = "exit1"
            /\ UNCHANGED movies
    /\ UNCHANGED <<files, exc, idx, matched_movies, misses, results, movie_results,
                   calls, ret, mpc>>

\* the for loop takes the next movie and calls tmdb_search, or ends
MainLoop ==
    /\ pc = "loop"
    /\ IF idx <= Len(movies)
       THEN /\ pc' = "search1"
            /\ results' = <<>>
            /\ movie_results' = <<>>
            /\ calls' = <<>>
            /\ ret' = PyNone
       ELSE /\ pc' = "build"
            /\ UNCHANGED <<results, movie_results, calls, ret>>
    /\ UNCHANGED <<files, exc, mainvars, mpc>>

\* results = search(title_cn, year) if year else search(title_cn)
Search1(R) ==
    /\ pc = "search1"
    /\ Search(R, Cur.title_cn.v, YearArg(Cur.year), "search2")
    /\ UNCHANGED <<files, mainvars, movie_results, ret, mpc>>

\* the cleaned title_en, with the year
Search2(R) ==
    /\ pc = "search2"
    /\ IF ForeignGuard(results, Cur.title_en)
       THEN Search(R, CleanTitleEn(Cur.title_en), YearArg(Cur.year), "search3")
       ELSE /\ pc' = "search3"
            /\ UNCHANGED <<results, calls, exc>>
    /\ UNCHANGED <<files, mainvars, movie_results, ret, mpc>>

\* title_cn without the year
Search3(R) ==
    /\ pc = "search3"
    /\ IF RetryGuard(results)
       THEN Search(R, Cur.title_cn.v, PyNone, "search4")
       ELSE /\ pc' = "search4"
            /\ UNCHANGED <<results, calls, exc>>
    /\ UNCHANGED <<files, mainvars, movie_results, ret, mpc>>

\* the cleaned title_en without the year
Search4(R) ==
    /\ pc = "search4"
    /\ IF ForeignGuard(results, Cur.title_en)
       THEN Search(R, CleanTitleEn(Cur.title_en), PyNone, "filter")
       ELSE /\ pc' = "filter"
            /\ UNCHANGED <<results, calls, exc>>
    /\ UNCHANGED <<files, mainvars, movie_results, ret, mpc>>

\* `if not results: return None`, then the genre filter and its fallback
Filter ==
    /\ pc = "filter"
    /\ IF results = <<>>
       THEN /\ ret' = PyNone
            /\ pc' = "returned"
            /\ UNCHANGED <<movie_results, exc>>
       ELSE LET f == FilterFrom(results, 1, <<>>)
            IN  IF f.t = "raise"
                THEN /\ Uncaught("TypeError")
                     /\ UNCHANGED <<movie_results, ret>>
                ELSE /\ movie_results' = OrUnfiltered(f.v, results)
                     /\ pc' = "tier1"
                     /\ UNCHANGED <<ret, exc>>
    /\ UNCHANGED <<files, mainvars, results, calls, mpc>>

\* how a tier's loop ends: tmdb_search returns, raises, or goes on to `next`
TierEnds(r, next) ==
    /\ IF r.t = "return"
       THEN /\ ret' = r.v
            /\ pc' = "returned"
            /\ exc' = exc
       ELSE IF r.t = "raise"
       THEN /\ Uncaught(r.v.k)
            /\ ret' = ret
       ELSE /\ pc' = next
            /\ UNCHANGED <<ret, exc>>
    /\ UNCHANGED <<files, mainvars, results, movie_results, calls, mpc>>

\* `if year:` and tier 1
Tier1 ==
    /\ pc = "tier1"
    /\ TierEnds(IF Truthy(Cur.year) THEN TierFrom(1, movie_results, 1, Cur)
                ELSE FallThrough, "tier2")

\* tier 2, inside the same `if year:`
Tier2 ==
    /\ pc = "tier2"
    /\ TierEnds(IF Truthy(Cur.year) THEN TierFrom(2, movie_results, 1, Cur)
                ELSE FallThrough, "tier3")

Tier3 ==
    /\ pc = "tier3"
    /\ TierEnds(TierFrom(3, movie_results, 1, Cur), "tier4")

Tier4 ==
    /\ pc = "tier4"
    /\ TierEnds(TierFrom(4, movie_results, 1, Cur), "tier5")

Tier5Step ==
    /\ pc = "tier5"
    /\ TierEnds(Tier5(movie_results), "tier5")

\* the entry of misses: f"{title_cn} / {title_en} ({year})", kept as its three parts
MissText(movie) == <<movie.title_cn, movie.title_en, movie.year>>

\* main after the call: `if tmdb_id:` records the movie as matched, else as a miss
MainRecord ==
    /\ pc = "returned"
    /\ IF Truthy(ret)
       THEN /\ movies' = [movies EXCEPT ![idx].tmdb_id = ret]
            /\ matched_movies' = Append(matched_movies, movies'[idx])
            /\ UNCHANGED misses
       ELSE /\ misses' = Append(misses, MissText(Cur))
            /\ UNCHANGED <<movies, matched_movies>>
    /\ idx' = idx + 1
    /\ pc' = "loop"
    /\ UNCHANGED <<files, exc, results, movie_results, calls, ret, mpc>>

\* after the loop: build_kometa_yaml(matched_movies), then not_found.txt `if misses:`
MainBuild ==
    /\ pc = "build"
    /\ kometa_file' = BuildKometa(matched_movies)
    /\ not_found_file' = IF misses # <<>> THEN misses ELSE not_found_file
    /\ pc' = "done"
    /\ UNCHANGED <<douban_file, complete_file, exc, mainvars, results, movie_results,
                   calls, ret, mpc>>

----------------------------------------------------------------------------
(* merge_yaml.py *)

\* main: sys.exit(1) without the catalog; else merge_data, save_merged_yaml, and the
\* statistics, whose matched_count/total_count raises ZeroDivisionError on no movies
MergeMain ==
    /\ mpc = "ready"
    /\ pc \in {"idle", "done", "crashed", "exit1"}
    /\ IF ~douban_file.ok
       THEN /\ mpc' = "exit1"
            /\ UNCHANGED complete_file
       ELSE /\ complete_file' = [k |-> "doc", v |-> MergeData(douban_file.movies, kometa_file)]
            /\ mpc' = IF douban_file.movies = <<>> THEN "crashed" ELSE "done"
    /\ UNCHANGED <<douban_file, kometa_file, not_found_file, pc, exc, mainvars, results,
                   movie_results, calls, ret>>

----------------------------------------------------------------------------
(* Specifications *)

Run(R) ==
    \/ MainLoad
    \/ MainLoop
    \/ Search1(R)
    \/ Search2(R)
    \/ Search3(R)
    \/ Search4(R)
    \/ Filter
    \/ Tier1
    \/ Tier2
    \/ Tier3
    \/ Tier4
    \/ Tier5Step
    \/ MainRecord
    \/ MainBuild
    \/ MergeMain

\* catalogs of the single-query runs
QueryCatalogs == {Unreadable, CatalogFile(<<>>)} \cup {CatalogFile(<<q>>) : q \in Queries}

\* catalogs of the batch runs
BatchCatalogs == {Unreadable} \cup {CatalogFile(c) : c \in SeqsUpTo(BatchQueries, MaxMovies)}

\* secondary documents merge_yaml may find
SecondaryEntries ==
    {KometaEntry(PyInt(id), PyStr(t), 1) : id \in {1, 5}, t \in {<<"a">>, <<" ", "A">>, <<"z">>}}

SecondaryDocs ==
    {KometaAbsent, KometaNoCollections}
        \cup {KometaDoc(e) : e \in SeqsUpTo(SecondaryEntries, MaxEntries)}

\* one query resolved against any provider behaviour
Init == InitWith(QueryCatalogs, {KometaAbsent}, "start")

Next == Run(Responses)

Spec == Init /\ [][Next]_vars

\* a batch run over a catalog of several movies, then the merge
InitBatch == InitWith(BatchCatalogs, {KometaAbsent}, "start")

NextBatch == Run(BatchResponses)

SpecBatch == InitBatch /\ [][NextBatch]_vars

\* merge_yaml.py on its own, on any catalog and any secondary document
InitMerge == InitWith(BatchCatalogs, SecondaryDocs, "idle")

NextMerge == MergeMain

SpecMerge == InitMerge /\ [][NextMerge]_vars

----------------------------------------------------------------------------
(* Vocabulary of the properties *)

SameVal(a, b) == a.k = b.k /\ a.v = b.v

\* a tmdb_search call has been made and main has not yet moved on from it
Resolving ==
    pc \in {"search1", "search2", "search3", "search4", "filter", "tier1", "tier2",
            "tier3", "tier4", "tier5", "returned", "crashed"}

\* the search cascade of the current call is over and no search failed
CascadeOver ==
    pc \in {"filter", "tier1", "tier2", "tier3", "tier4", "tier5", "returned"}
        \/ (pc = "crashed" /\ exc # "RequestException")

ProviderFailed == \E i \in 1..Len(calls) : calls[i].n < 0

Attempt(title, year) == [query |-> title, year |-> year]

\* the fixed attempt list, with or without the two foreign-title attempts
AttemptList(q, withForeign) ==
    IF withForeign
    THEN <<Attempt(q.title_cn.v, YearArg(q.year)),
           Attempt(Strip(LStripSlash(Strip(q.title_en.v))), YearArg(q.year)),
           Attempt(q.title_cn.v, PyNone),
           Attempt(Strip(LStripSlash(Strip(q.title_en.v))), PyNone)>>
    ELSE <<Attempt(q.title_cn.v, YearArg(q.year)), Attempt(q.title_cn.v, PyNone)>>

\* the calls issued so far are a prefix of `attempts`, every call but the last came
\* back empty, and a cascade that is over stopped at a non-empty answer or ran out
FollowsAttempts(attempts) ==
    /\ Len(calls) <= Len(attempts)
    /\ \A i \in 1..Len(calls) :
          /\ calls[i].query = attempts[i].query
          /\ SameVal(calls[i].year, attempts[i].year)
          /\ i < Len(calls) => calls[i].n = 0
    /\ CascadeOver =>
          /\ Len(calls) >= 1
          /\ calls[Len(calls)].n > 0 \/ Len(calls) = Len(attempts)

WellFormedResults == \A i \in 1..Len(results) : results[i] \in WellFormedMovies

IdsOf(ms) == {ms[i].id.v : i \in {j \in 1..Len(ms) : ms[j].id.k = "int"}}

Matched(id) == ret.k = "int" /\ ret.v = id

Unmatched == ret.k = "none"

----------------------------------------------------------------------------
(* C1: the searches one tmdb_search issues *)

\* C1 as claimed: the calls of one tmdb_search are a prefix of [title_cn with year,
\* cleaned title_en with year, title_cn, cleaned title_en], the two title_en attempts
\* left out only when title_en is absent (None or ""), ending at the first
\* non-empty answer, or after all of them.
C1_CascadeAsClaimed ==
    (Resolving /\ ~ProviderFailed) => FollowsAttempts(AttemptList(Cur, Truthy(Cur.title_en)))

\* C1, amended: the same, with the two title_en attempts left out when title_en is
\* absent or empty once cleaned (such as "/"), and the cascade also ending at an
\* attempt that raises.
C1_Cascade ==
    Resolving =>
        /\ FollowsAttempts(AttemptList(Cur,
               Cur.title_en.k = "str" /\ Strip(LStripSlash(Strip(Cur.title_en.v))) # <<>>))
        /\ ProviderFailed => pc = "crashed" /\ calls[Len(calls)].n < 0

\* scenario B: two empty answers, then a non-empty third one, and no fourth call
C1_Witness ==
    /\ pc = "returned"
    /\ Len(calls) = 3
    /\ calls[1].n = 0 /\ calls[2].n = 0 /\ calls[3].n > 0
    /\ calls[3].year.k = "none"
    /\ Cur.year.k = "int"

----------------------------------------------------------------------------
(* C2, C7, C9: how one tmdb_search ends *)

\* C2: with a well-formed query, a provider that does not fail and well-formed
\* candidates, tmdb_search returns a match or None and never raises, also when
\* title_en is absent and the candidate list is not empty.
C2_Totality == pc = "crashed" => (ProviderFailed \/ ~WellFormedResults)

\* C7: a candidate with a missing or null field never aborts the resolution: with
\* title_en a string, tmdb_search raises only what a failed search raises.
C7_MalformedSkipped == (pc = "crashed" /\ Cur.title_en.k = "str") => ProviderFailed

\* C9: tmdb_search returns None exactly when every search it issued came back empty;
\* once a search gives candidates, the result is the id of one of them; and the
\* tiers never run on an empty list.
C9_UnmatchedIffAllEmpty ==
    /\ pc \in {"tier1", "tier2", "tier3", "tier4", "tier5"} => movie_results # <<>>
    /\ (pc \in {"returned", "crashed"} /\ ~ProviderFailed /\ WellFormedResults) =>
          /\ (pc = "returned" /\ Unmatched) <=> (\A i \in 1..Len(calls) : calls[i].n = 0)
          /\ (\E i \in 1..Len(calls) : calls[i].n > 0) =>
                (pc = "returned" /\ ret.k = "int" /\ ret.v \in IdsOf(results))

----------------------------------------------------------------------------
(* C3: the genre filter's fallback *)

HasExcludedTag(movie) ==
    movie.genre_ids.k = "list" /\ movie.genre_ids.v \cap {10767, 10770, 99} # {}

\* every candidate found is well-formed and carries an excluded genre tag
AllExcluded ==
    /\ results # <<>>
    /\ WellFormedResults
    /\ \A i \in 1..Len(results) : HasExcludedTag(results[i])

\* the query's year, or its titles (whole or contained), fit the movie
FitsQuery(movie, q) ==
    \/ q.year.k = "int" /\ Slice4(movie.release_date.v) = StrOfInt(q.year.v)
    \/ Contains(Lower(Strip(q.title_cn.v)), Lower(Strip(movie.title.v)))
    \/ q.title_en.k = "str"
          /\ Contains(Lower(Strip(q.title_en.v)), Lower(Strip(movie.original_title.v)))

----------------------------------------------------------------------------
(* C4: tier 1 before tier 2 *)

\* the movie has the query's year and its title or original title
Qualifies(movie, q) ==
    /\ Slice4(movie.release_date.v) = StrOfInt(q.year.v)
    /\ \/ Lower(Strip(movie.title.v)) = Lower(Strip(q.title_cn.v))
       \/ q.title_en.k = "str"
             /\ Lower(Strip(movie.original_title.v)) = Lower(Strip(q.title_en.v))

Qualifying == {i \in 1..Len(movie_results) : Qualifies(movie_results[i], Cur)}

FirstOf(S) == CHOOSE i \in S : \A j \in S : i <= j

\* C4: with a year, when the filtered list holds a candidate with that year and the
\* query's title (or original title), tmdb_search returns the first such candidate's
\* id, whatever same-year candidates come before it.
C4_TierPrecedence ==
    (/\ pc \in {"tier2", "tier3", "tier4", "tier5", "returned", "crashed"}
     /\ movie_results # <<>>
     /\ WellFormedResults
     /\ Cur.year.k = "int"
     /\ Qualifying # {}) =>
        (pc = "returned" /\ Matched(movie_results[FirstOf(Qualifying)].id.v))

----------------------------------------------------------------------------
(* C5, C6: the batch run *)

\* C5: a failed search is confined to its catalog entry: it never ends the run.
C5_FailureConfined == ProviderFailed => pc # "crashed"

IsMatched(i) == \E j \in 1..Len(matched_movies) : matched_movies[j].rank = movies[i].rank

\* C6: when the run is over every catalog entry has exactly one outcome: it is once
\* in matched_movies, or it is not there and its line is in misses, in catalog order.
C6_OneOutcomeEach ==
    pc \in {"done", "crashed"} =>
        /\ \A i \in 1..Len(movies) :
              /\ Cardinality({j \in 1..Len(matched_movies) :
                                matched_movies[j].rank = movies[i].rank}) <= 1
              /\ Cardinality({j \in 1..Len(misses) : misses[j] = MissText(movies[i])})
                   = Cardinality({k \in 1..Len(movies) :
                                    MissText(movies[k]) = MissText(movies[i]) /\ ~IsMatched(k)})
        /\ Len(matched_movies) + Len(misses) = Len(movies)
        /\ \A j \in 1..(Len(matched_movies) - 1) :
              matched_movies[j].rank < matched_movies[j + 1].rank

----------------------------------------------------------------------------
(* C8: merge_data as a left outer join *)

\* the positions of the secondary document's entries with this title
EntriesTitled(title) ==
    IF kometa_file.k = "doc"
    THEN {j \in 1..Len(kometa_file.v) : SameVal(kometa_file.v[j].title, title)}
    ELSE {}

LastOf(S) == CHOOSE i \in S : \A j \in S : j <= i

\* C8: the merged list has one record per catalog record, in catalog order, with
\* rank, titles, year, rating, director and actors as in the catalog; its tmdb_id is
\* the id of the secondary entry with exactly the record's title_cn (the last one, if
\* several have it), and None when there is none or no secondary document.
C8_LeftOuterJoin ==
    complete_file.k = "doc" =>
        /\ Len(complete_file.v) = Len(douban_file.movies)
        /\ \A i \in 1..Len(complete_file.v) :
              LET out == complete_file.v[i]
                  in == douban_file.movies[i]
                  hits == EntriesTitled(in.title_cn)
              IN  /\ out.rank = in.rank
                  /\ SameVal(out.title_cn, in.title_cn)
                  /\ SameVal(out.title_en, in.title_en)
                  /\ SameVal(out.year, in.year)
                  /\ SameVal(out.rating, in.rating)
                  /\ SameVal(out.director, in.director)
                  /\ SameVal(out.actors, in.actors)
                  /\ IF hits = {} THEN out.tmdb_id.k = "none"
                     ELSE SameVal(out.tmdb_id, kometa_file.v[LastOf(hits)].id)

\* two catalog records merged, one with an id from the secondary document, one without
C8_Witness ==
    /\ complete_file.k = "doc"
    /\ kometa_file.k = "doc"
    /\ Len(complete_file.v) = 2
    /\ complete_file.v[1].tmdb_id.k = "none"
    /\ complete_file.v[2].tmdb_id.k = "int"

----------------------------------------------------------------------------
(* C10: resolve, build_kometa_yaml, merge_data end to end *)

\* what main recorded for the i-th catalog record: the id it matched, or None
Recorded(i) ==
    IF IsMatched(i)
    THEN matched_movies[CHOOSE j \in 1..Len(matched_movies) :
                            matched_movies[j].rank = movies[i].rank].tmdb_id
    ELSE PyNone

\* both scripts ran to their end, merge_yaml after douban_to_tmdb
PipelineDone == pc = "done" /\ complete_file.k = "doc"

UniqueTitle(i) ==
    \A k \in 1..Len(movies) : SameVal(movies[k].title_cn, movies[i].title_cn) => k = i

\* C10 as claimed: the merged tmdb_id of every catalog record is what main recorded
\* for it, also when two records share a title_cn.
C10_EndToEndAsClaimed ==
    PipelineDone =>
        \A i \in 1..Len(movies) : SameVal(complete_file.v[i].tmdb_id, Recorded(i))

\* C10, amended: on a completed run, the merged tmdb_id of every catalog record
\* whose title_cn no other record has is what main recorded for it; records sharing
\* a title_cn all get the id of the last matched one among them.
C10_EndToEnd ==
    PipelineDone =>
        \A i \in 1..Len(movies) :
            LET same == {k \in 1..Len(movies) :
                            SameVal(movies[k].title_cn, movies[i].title_cn) /\ IsMatched(k)}
            IN  /\ UniqueTitle(i) => SameVal(complete_file.v[i].tmdb_id, Recorded(i))
                /\ IF same = {} THEN complete_file.v[i].tmdb_id.k = "none"
                   ELSE SameVal(complete_file.v[i].tmdb_id, Recorded(LastOf(same)))

\* two records with different titles, the first unmatched, the second matched to 5
C10_Witness ==
    /\ PipelineDone
    /\ Len(movies) = 2
    /\ UniqueTitle(1)
    /\ complete_file.v[1].tmdb_id.k = "none" /\ ~IsMatched(1)
    /\ complete_file.v[2].tmdb_id.k = "int" /\ complete_file.v[2].tmdb_id.v = 5

====
